---- MODULE Spec2Model ----
(***************************************************************************)
(* MongoNews: the ingestion program (load-json.py) and the query program   *)
(* (phase2_query.py), as state machines over one store.                    *)
(*                                                                         *)
(* The store holds one collection, 'articles', a bag of documents.  A      *)
(* bulk insert that the store refuses writes nothing.  The source file is  *)
(* readable, decodable text once it has been opened.                       *)
(***************************************************************************)
EXTENDS Integers, Sequences, FiniteSets, Bags, TLC

(* ------------------------------ bounds -------------------------------- *)

\* Longest source file, in lines.
MaxLines == 4
\* load-json.py:6 sets BATCH_SIZE = 1000; the model runs the same code with
\* a threshold small enough for files of MaxLines lines to fill batches.
BATCH_SIZE == 2
\* Store requests that may fail in one behaviour.
MaxStoreFailures == 2
\* Ingestion runs in sequence against the same source.
MaxRuns == 2

(* --------------------------- dates and text --------------------------- *)

Day(y, m, d) == [y |-> y, m |-> m, d |-> d]

\* An instant: a calendar day (UTC) and a time of day.
Instant(day, tod) == [day |-> day, tod |-> tod]

NoInstant == [day |-> Day(0, 0, 0), tod |-> 0]

\* Decimal digits of n, zero-padded to two places / to four places.
Pad2(n) == << n \div 10, n % 10 >>

Pad4(n) == << n \div 1000, (n \div 100) % 10, (n \div 10) % 10, n % 10 >>

\* Decimal digits of n < 100 without padding.
Unpadded(n) == IF n < 10 THEN << n >> ELSE Pad2(n)

\* The number a run of digits denotes.
RECURSIVE DigitsValue(_)
DigitsValue(ds) ==
    IF ds = << >> THEN 0
    ELSE 10 * DigitsValue(SubSeq(ds, 1, Len(ds) - 1)) + ds[Len(ds)]

\* A 'Y-M-D' text: its three '-'-separated digit runs.
DateText(ys, ms, ds) == << ys, ms, ds >>

\* $dateToString with format '%Y-%m-%d': every field zero-padded.
DateToString(inst) ==
    DateText(Pad4(inst.day.y), Pad2(inst.day.m), Pad2(inst.day.d))

DaysInMonth(y, m) ==
    IF m \in {4, 6, 9, 11} THEN 30
    ELSE IF m = 2
         THEN (IF (y % 4 = 0 /\ y % 100 # 0) \/ y % 400 = 0 THEN 29 ELSE 28)
         ELSE 31

\* datetime.strptime(text, '%Y-%m-%d') succeeds: %Y takes exactly four
\* digits, %m and %d take one or two (the leading zero is optional), and the
\* fields must name a day of the calendar.
StrptimeOk(text) ==
    /\ Len(text[1]) = 4
    /\ Len(text[2]) \in {1, 2}
    /\ Len(text[3]) \in {1, 2}
    /\ DigitsValue(text[1]) >= 1
    /\ DigitsValue(text[2]) \in 1..12
    /\ DigitsValue(text[3]) >= 1
    /\ DigitsValue(text[3]) <= DaysInMonth(DigitsValue(text[1]), DigitsValue(text[2]))

\* The day strptime parses out of a text it accepts.
Strptime(text) ==
    Day(DigitsValue(text[1]), DigitsValue(text[2]), DigitsValue(text[3]))

(* ------------------------------ documents ----------------------------- *)

RequiredFields == {"id", "content", "title", "media-type", "source", "published"}

\* A stored 'published' value: a native date, a string (which $toDate can
\* parse or not), or null.
NativeDate(inst) == [rep |-> "date", ok |-> TRUE, inst |-> inst]

DateString(inst) == [rep |-> "string", ok |-> TRUE, inst |-> inst]

BadDateString == [rep |-> "string", ok |-> FALSE, inst |-> NoInstant]

NullValue == [rep |-> "null", ok |-> TRUE, inst |-> NoInstant]

\* What json.loads yields for a line: a value of some JSON kind.  'names' is
\* what the test `field in document` finds among the required field names:
\* keys of an object, elements of an array, substrings of a string.
Value(kind, names, mt, content, title, src, pub) ==
    [kind |-> kind, names |-> names, mediaType |-> mt, content |-> content,
     title |-> title, source |-> src, published |-> pub]

\* An object with all six required fields.
Doc(mt, content, title, src, pub) ==
    Value("object", RequiredFields, mt, content, title, src, pub)

D1 == Day(2015, 9, 1)

D2 == Day(2015, 10, 11)

D3 == Day(2014, 9, 1)

(* --------------------------- the source file -------------------------- *)

NoText == << >>

NoPublished == NullValue

\* An empty or whitespace-only line.
BlankLine == Value("blank", {}, "", NoText, "", "", NoPublished)

\* A line that is not JSON.
BadJsonLine == Value("badjson", {}, "", NoText, "", "", NoPublished)

\* A JSON number, true, false or null.
ScalarLine == Value("scalar", {}, "", NoText, "", "", NoPublished)

\* A JSON string in which not every required field name occurs.
StringMissingLine == Value("string", {"title"}, "", NoText, "", "", NoPublished)

\* A JSON array with the six required field names among its elements.
ArrayOfNamesLine == Value("array", RequiredFields, "", NoText, "", "", NoPublished)

\* A JSON object without a 'published' field.
ObjectMissingLine ==
    Value("object", RequiredFields \ {"published"}, "news", NoText, "t1", "BBC",
          NoPublished)

\* A JSON object with all six fields, 'published' an ISO date string.
GoodLine == Doc("news", NoText, "t1", "BBC", DateString(Instant(D1, 0)))

\* A JSON object with all six fields, 'published' a string that is no date.
BadPublishedLine == Doc("blog", NoText, "t2", "BBC", BadDateString)

\* A document left in the store by something other than this source.
StaleDoc == Doc("news", NoText, "old", "CNN", DateString(Instant(D3, 0)))

Lines ==
    {BlankLine, BadJsonLine, ScalarLine, StringMissingLine, ArrayOfNamesLine,
     ObjectMissingLine, GoodLine, BadPublishedLine}

Sources == UNION {[1..n -> Lines] : n \in 0..MaxLines}

(* ------------------------------- state -------------------------------- *)

VARIABLES
    collection,       \* the store's 'articles' collection: a bag of documents
    source,           \* the input file: its lines
    lpc,              \* load-json.py: where main is
    fileOpen,         \* load-json.py: file_handle is open
    clientOpen,       \* load-json.py: client is connected and not closed
    linePos,          \* lines read so far
    batch,            \* load-json.py: batch
    total_documents,  \* load-json.py: total_documents
    batch_count,      \* load-json.py: batch_count
    outcome,          \* how the run ended: completed, open_error,
                      \* connect_error, error ("Error during processing"),
                      \* crash (an uncaught exception)
    insertCalls,      \* insert_many calls the store has been sent this run
    insertedSizes,    \* sizes of the batches the store accepted this run
    flushFailed,      \* the store has refused an insert_many this run
    failures,         \* store requests refused so far
    run,              \* which ingestion run this is
    afterFirst,       \* the collection as the first completed run left it
    qpc,              \* phase2_query.py: where main is
    qClientOpen,      \* phase2_query.py: client is connected and not closed
    output            \* phase2_query.py: what the last operation reported

loadVars ==
    << source, lpc, fileOpen, clientOpen, linePos, batch, total_documents,
       batch_count, outcome, insertCalls, insertedSizes, flushFailed, run,
       afterFirst >>

queryVars == << qpc, qClientOpen, output >>

vars == << collection, failures, loadVars, queryVars >>

NoOutput ==
    [op |-> "none", status |-> "none", all |-> << >>, picked |-> << >>,
     list |-> << >>, typed |-> << >>, news |-> 0, blog |-> 0,
     leader |-> "none"]

(* ------------------------------ the store ----------------------------- *)

\* 'articles' in db.list_collection_names(): the collection exists once it
\* holds a document, and no longer after a drop.
CollectionExists == collection # EmptyBag

\* The documents of a batch, as a bag.
BagOfSeq(s) ==
    [v \in {s[i] : i \in DOMAIN s} |-> Cardinality({i \in DOMAIN s : s[i] = v})]

\* The store may refuse a request while the failure budget lasts.
StoreMayFail == failures < MaxStoreFailures

\* insert_many raises TypeError, before sending anything, when an element of
\* the batch is not a mapping.
DriverRejects(b) == \E i \in DOMAIN b : b[i].kind # "object"

(* --------------------------- load-json.py ----------------------------- *)

\* `field in document` raises TypeError on a number, a boolean or null.
ValidationRaises(v) == v.kind = "scalar"

\* all(field in document for field in required_fields)
HasRequiredFields(v) == RequiredFields \subseteq v.names

\* open(json_filename): on failure nothing is held and the run exits.
OpenFile ==
    /\ lpc = "start"
    /\ \/ /\ fileOpen' = TRUE
          /\ lpc' = "opened"
          /\ UNCHANGED outcome
       \/ /\ fileOpen' = FALSE
          /\ lpc' = "exited"
          /\ outcome' = "open_error"
    /\ UNCHANGED << collection, failures, source, clientOpen, linePos, batch,
                    total_documents, batch_count, insertCalls, insertedSizes,
                    flushFailed, run, afterFirst, queryVars >>

\* MongoClient(...) and the ping.  A refused ping closes the file only.
Connect ==
    /\ lpc = "opened"
    /\ clientOpen' = TRUE
    /\ \/ /\ lpc' = "connected"
          /\ UNCHANGED << fileOpen, outcome, failures >>
       \/ /\ StoreMayFail
          /\ failures' = failures + 1
          /\ fileOpen' = FALSE
          /\ lpc' = "exited"
          /\ outcome' = "connect_error"
    /\ UNCHANGED << collection, source, linePos, batch, total_documents,
                    batch_count, insertCalls, insertedSizes, flushFailed, run,
                    afterFirst, queryVars >>

\* Mutant of DropIfExists: the existing collection is kept.
DropIfExistsSkipped(c) == c

\* if 'articles' in db.list_collection_names(): db['articles'].drop()
DropIfExists(c) == IF c # EmptyBag THEN EmptyBag ELSE c

\* list_collection_names() and drop(), outside any try: a refused request
\* leaves main by an uncaught exception.
DropExisting ==
    /\ lpc = "connected"
    /\ \/ /\ collection' = DropIfExists(collection)
          /\ lpc' = "loop"
          /\ UNCHANGED << outcome, failures >>
       \/ /\ StoreMayFail
          /\ failures' = failures + 1
          /\ lpc' = "exited"
          /\ outcome' = "crash"
          /\ UNCHANGED collection
    /\ UNCHANGED << source, fileOpen, clientOpen, linePos, batch,
                    total_documents, batch_count, insertCalls, insertedSizes,
                    flushFailed, run, afterFirst, queryVars >>

\* The threshold test after batch.append(document).
BatchFull(b) == Len(b) >= BATCH_SIZE

\* One pass of the for loop over the next line.  Every exception raised
\* inside the inner try, insert_many's included, is caught there and the
\* loop goes on with batch, total_documents and batch_count as they were.
ProcessLine ==
    /\ lpc = "loop"
    /\ linePos < Len(source)
    /\ linePos' = linePos + 1
    /\ LET v == source[linePos + 1]
           b == Append(batch, v)
       IN  \/ /\ v.kind = "blank"
              /\ UNCHANGED << collection, failures, batch, total_documents,
                              batch_count, insertCalls, insertedSizes,
                              flushFailed >>
           \/ /\ v.kind = "badjson"
              /\ UNCHANGED << collection, failures, batch, total_documents,
                              batch_count, insertCalls, insertedSizes,
                              flushFailed >>
           \/ /\ v.kind \notin {"blank", "badjson"}
              /\ ValidationRaises(v)
              /\ UNCHANGED << collection, failures, batch, total_documents,
                              batch_count, insertCalls, insertedSizes,
                              flushFailed >>
           \/ /\ v.kind \notin {"blank", "badjson"}
              /\ ~ValidationRaises(v)
              /\ ~HasRequiredFields(v)
              /\ UNCHANGED << collection, failures, batch, total_documents,
                              batch_count, insertCalls, insertedSizes,
                              flushFailed >>
           \/ /\ v.kind \notin {"blank", "badjson"}
              /\ ~ValidationRaises(v)
              /\ HasRequiredFields(v)
              /\ ~BatchFull(b)
              /\ batch' = b
              /\ UNCHANGED << collection, failures, total_documents,
                              batch_count, insertCalls, insertedSizes,
                              flushFailed >>
           \/ /\ v.kind \notin {"blank", "badjson"}
              /\ ~ValidationRaises(v)
              /\ HasRequiredFields(v)
              /\ BatchFull(b)
              /\ \/ \* insert_many raises TypeError: nothing is sent
                    /\ DriverRejects(b)
                    /\ batch' = b
                    /\ UNCHANGED << collection, failures, total_documents,
                                    batch_count, insertCalls, insertedSizes,
                                    flushFailed >>
                 \/ \* the store refuses the insert
                    /\ ~DriverRejects(b)
                    /\ StoreMayFail
                    /\ failures' = failures + 1
                    /\ insertCalls' = insertCalls + 1
                    /\ flushFailed' = TRUE
                    /\ batch' = b
                    /\ UNCHANGED << collection, total_documents, batch_count,
                                    insertedSizes >>
                 \/ \* the store accepts the insert
                    /\ ~DriverRejects(b)
                    /\ collection' = collection (+) BagOfSeq(b)
                    /\ insertCalls' = insertCalls + 1
                    /\ insertedSizes' = Append(insertedSizes, Len(b))
                    /\ total_documents' = total_documents + Len(b)
                    /\ batch_count' = batch_count + 1
                    /\ batch' = << >>
                    /\ UNCHANGED << failures, flushFailed >>
    /\ UNCHANGED << source, lpc, fileOpen, clientOpen, outcome, run,
                    afterFirst, queryVars >>

\* After the loop: the final partial batch, the completion report, and the
\* except/finally clauses, which close the file and the client.
FinishRun ==
    /\ lpc = "loop"
    /\ linePos = Len(source)
    /\ lpc' = "exited"
    /\ fileOpen' = FALSE
    /\ clientOpen' = FALSE
    /\ \/ /\ batch = << >>
          /\ outcome' = "completed"
          /\ UNCHANGED << collection, failures, total_documents, batch_count,
                          insertCalls, insertedSizes, flushFailed >>
       \/ /\ batch # << >>
          /\ DriverRejects(batch)
          /\ outcome' = "error"
          /\ UNCHANGED << collection, failures, total_documents, batch_count,
                          insertCalls, insertedSizes, flushFailed >>
       \/ /\ batch # << >>
          /\ ~DriverRejects(batch)
          /\ StoreMayFail
          /\ failures' = failures + 1
          /\ insertCalls' = insertCalls + 1
          /\ flushFailed' = TRUE
          /\ outcome' = "error"
          /\ UNCHANGED << collection, total_documents, batch_count,
                          insertedSizes >>
       \/ /\ batch # << >>
          /\ ~DriverRejects(batch)
          /\ collection' = collection (+) BagOfSeq(batch)
          /\ insertCalls' = insertCalls + 1
          /\ insertedSizes' = Append(insertedSizes, Len(batch))
          /\ total_documents' = total_documents + Len(batch)
          /\ batch_count' = batch_count + 1
          /\ outcome' = "completed"
          /\ UNCHANGED << failures, flushFailed >>
    /\ UNCHANGED << source, linePos, batch, run, afterFirst, queryVars >>

\* The program is run again on the same source after a completed run.
RunAgain ==
    /\ lpc = "exited"
    /\ outcome = "completed"
    /\ run < MaxRuns
    /\ run' = run + 1
    /\ afterFirst' = IF run = 1 THEN collection ELSE afterFirst
    /\ lpc' = "start"
    /\ linePos' = 0
    /\ batch' = << >>
    /\ total_documents' = 0
    /\ batch_count' = 0
    /\ outcome' = "none"
    /\ insertCalls' = 0
    /\ insertedSizes' = << >>
    /\ flushFailed' = FALSE
    /\ UNCHANGED << collection, failures, source, fileOpen, clientOpen,
                    queryVars >>

LoadInit ==
    /\ source \in Sources
    /\ collection \in {EmptyBag, SetToBag({StaleDoc})}
    /\ lpc = "start"
    /\ fileOpen = FALSE
    /\ clientOpen = FALSE
    /\ linePos = 0
    /\ batch = << >>
    /\ total_documents = 0
    /\ batch_count = 0
    /\ outcome = "none"
    /\ insertCalls = 0
    /\ insertedSizes = << >>
    /\ flushFailed = FALSE
    /\ failures = 0
    /\ run = 1
    /\ afterFirst = EmptyBag
    /\ qpc = "idle"
    /\ qClientOpen = FALSE
    /\ output = NoOutput

LoadNext ==
    \/ OpenFile
    \/ Connect
    \/ DropExisting
    \/ ProcessLine
    \/ FinishRun
    \/ RunAgain

Spec == LoadInit /\ [][LoadNext]_vars

(* ----------------------- ingestion: the claims ------------------------ *)

\* A valid Article record: a JSON object with the six required fields.
IsArticle(v) == v.kind = "object" /\ RequiredFields \subseteq v.names

\* The valid records of a source, in file order.
ValidRecords(src) == SelectSeq(src, IsArticle)

CeilDiv(n, b) == (n + b - 1) \div b

RECURSIVE SumSeq(_)
SumSeq(s) == IF s = << >> THEN 0 ELSE s[1] + SumSeq(Tail(s))

RunCompleted == lpc = "exited" /\ outcome = "completed"

\* C1: when a run completes, the store has been sent ceil(N/B) bulk inserts,
\* the accepted batches' sizes sum to N and the reported total is N, for N
\* the number of valid records of the source.
C1_BatchAccounting ==
    RunCompleted =>
        /\ insertCalls = CeilDiv(Len(ValidRecords(source)), BATCH_SIZE)
        /\ Len(insertedSizes) = CeilDiv(Len(ValidRecords(source)), BATCH_SIZE)
        /\ SumSeq(insertedSizes) = Len(ValidRecords(source))
        /\ total_documents = Len(ValidRecords(source))

\* The accounting of C1 in the runs in which the store refused no insert.
BatchAccountingWhenNoInsertRefused ==
    (RunCompleted /\ ~flushFailed) =>
        /\ insertCalls = CeilDiv(Len(ValidRecords(source)), BATCH_SIZE)
        /\ batch_count = insertCalls
        /\ SumSeq(insertedSizes) = Len(ValidRecords(source))
        /\ total_documents = Len(ValidRecords(source))

\* C2: once the store has refused a bulk insert, the run reads no further
\* line, sends no further bulk insert and does not report completion.
C2_FlushFailureIsFatal ==
    [][(flushFailed /\ lpc = "loop") =>
          /\ linePos' = linePos
          /\ insertCalls' = insertCalls
          /\ outcome' = "error"]_vars

\* C3: with a working store, a run that got to read its source completes and
\* the collection holds exactly the valid records of the source, whatever
\* the other lines are.
C3_LineErrorsNeverFatal ==
    (lpc = "exited" /\ failures = 0 /\ outcome # "open_error") =>
        /\ outcome = "completed"
        /\ collection = BagOfSeq(ValidRecords(source))

\* C4: when a run has exited, the file handle and the store connection it
\* acquired are closed.
C4_ResourcesReleased ==
    lpc = "exited" => (~fileOpen /\ ~clientOpen)

\* C5: every value in the batch and every document in the collection is an
\* object with the six required fields.
C5_OnlyCompleteRecords ==
    /\ \A i \in DOMAIN batch : IsArticle(batch[i])
    /\ \A d \in BagToSet(collection) : IsArticle(d)

\* The persisted half of C5.
OnlyCompleteRecordsPersisted ==
    \A d \in BagToSet(collection) : IsArticle(d)

\* C6: a second (and any later) completed run on the same source leaves the
\* collection as the first completed run left it, and every completed run
\* leaves exactly the valid records of the source: what the collection held
\* before the run is gone.
C6_IdempotentReload ==
    /\ (RunCompleted /\ run >= 2) => collection = afterFirst
    /\ RunCompleted => collection = BagOfSeq(ValidRecords(source))

\* C6: a second run has completed over a collection that the first run
\* filled with more than one batch.
C6_Witness ==
    /\ RunCompleted
    /\ run = 2
    /\ BagCardinality(collection) > BATCH_SIZE
    /\ batch_count >= 2

(* ------------------------- strings and instants ----------------------- *)

\* str.lower() and $toLower, on the strings the model uses.
ToLower(str) ==
    CASE str = "News" -> "news"
      [] str = "NEWS" -> "news"
      [] str = "Blog" -> "blog"
      [] str = "BBC" -> "bbc"
      [] str = "CNN" -> "cnn"
      [] str = "NPR" -> "npr"
      [] str = "Fox" -> "fox"
      [] str = "Cats" -> "cats"
      [] str = "CATS" -> "cats"
      [] OTHER -> str

\* The strings that occur as group keys, in the store's (binary) string
\* order: upper case sorts before lower case.
StringOrder ==
    << "BBC", "CNN", "Fox", "NPR", "ant", "bbc", "bee", "cats", "cnn", "dog",
       "e-mail", "fox", "gnu_1", "npr" >>

Rank(str) == CHOOSE i \in DOMAIN StringOrder : StringOrder[i] = str

\* A content text: its maximal runs of [a-zA-Z0-9_-] characters and the
\* runs of other characters between them.
Word(t) == [word |-> TRUE, text |-> t]

Sep(t) == [word |-> FALSE, text |-> t]

\* $toLower of the content, then every match of [a-zA-Z0-9_-]+, left to
\* right.
RECURSIVE Tokens(_)
Tokens(text) ==
    IF text = << >> THEN << >>
    ELSE (IF text[1].word THEN << ToLower(text[1].text) >> ELSE << >>)
         \o Tokens(Tail(text))

\* $toDate of a value that is not already a date fails on a string that is
\* no date; null converts to null.
ToDateFails(pub) == pub.rep = "string" /\ ~pub.ok

\* $cond on $type = 'date': the value itself, or $toDate of it.
IsNullDate(pub) == pub.rep = "null"

ResolvedInstant(pub) == pub.inst

InstantBefore(a, b) ==
    \/ a.day.y < b.day.y
    \/ a.day.y = b.day.y /\ a.day.m < b.day.m
    \/ a.day.y = b.day.y /\ a.day.m = b.day.m /\ a.day.d < b.day.d
    \/ a.day = b.day /\ a.tod < b.tod

\* {'$sum': 1} over the documents ds of bag c, copies counted.
RECURSIVE CountOf(_, _)
CountOf(c, ds) ==
    IF ds = {} THEN 0
    ELSE LET d == CHOOSE x \in ds : TRUE
         IN  c[d] + CountOf(c, ds \ {d})

\* Some document of the collection makes $toDate fail.
SomeDateFails(c) == \E d \in BagToSet(c) : ToDateFails(d.published)

(* --------------------- grouped counts, sorted ------------------------- *)

\* {'$sort': {'count': -1, '_id': 1}}: a comes before b.
GroupBefore(a, b) ==
    \/ a.count > b.count
    \/ a.count = b.count /\ Rank(a.id) < Rank(b.id)

\* The groups of a set, as the sort stage returns them.
RECURSIVE SortGroups(_)
SortGroups(G) ==
    IF G = {} THEN << >>
    ELSE LET first == CHOOSE g \in G : \A h \in G \ {g} : GroupBefore(g, h)
         IN  << first >> \o SortGroups(G \ {first})

Positions(n) == [i \in 1..n |-> i]

Min(a, b) == IF a < b THEN a ELSE b

\* The entries of a list at the given positions.
At(all, picked) == [i \in DOMAIN picked |-> all[picked[i]]]

(* ------------------------- phase2_query.py ---------------------------- *)

\* What an operation reports.  'all' is the full sorted result the store
\* returned, 'picked' the positions of it that are listed, 'list' the
\* entries listed.
Report(op, status, all, picked) ==
    [op |-> op, status |-> status, all |-> all, picked |-> picked,
     list |-> At(all, picked), typed |-> << >>, news |-> 0, blog |-> 0,
     leader |-> "none"]

\* Option 2's report: the date text the user typed, the two counts and
\* which media type leads.
CountReport(status, date_str, news, blog, leader) ==
    [op |-> "count", status |-> status, all |-> << >>, picked |-> << >>,
     list |-> << >>, typed |-> date_str, news |-> news, blog |-> blog,
     leader |-> leader]

\* ---- option 1: most common words by media type

\* The $match stage: the document's lowercased media type is the selector.
MatchesMediaType(d, media_type) == ToLower(d.mediaType) = media_type

\* How often token w occurs in a document's content.
Occurrences(d, w) ==
    Cardinality({i \in DOMAIN Tokens(d.content) : Tokens(d.content)[i] = w})

\* The $project, $unwind and $group stages: one group per token, counting
\* its occurrences over all matching documents.
WordGroups(c, media_type) ==
    LET docs == {d \in BagToSet(c) : MatchesMediaType(d, media_type)}
        words == UNION {{Tokens(d.content)[i] : i \in DOMAIN Tokens(d.content)}
                           : d \in docs}
        RECURSIVE Total(_, _)
        Total(S, w) == IF S = {} THEN 0
                       ELSE LET d == CHOOSE x \in S : TRUE
                            IN  c[d] * Occurrences(d, w) + Total(S \ {d}, w)
    IN  {[id |-> w, count |-> Total(docs, w)] : w \in words}

\* top_5, fifth_count, included_words, tied_words and result, as positions
\* of all_results.
CommonWordsPicked(all_results) ==
    LET top_5 == Positions(Min(5, Len(all_results)))
    IN  IF Len(top_5) >= 5
        THEN LET fifth_count == all_results[5].count
                 included_words == {all_results[i].id : i \in 1..4}
                 Tied(i) == /\ all_results[i].count = fifth_count
                            /\ all_results[i].id \notin included_words
                 tied_words == SelectSeq(Positions(Len(all_results)), Tied)
             IN  SubSeq(top_5, 1, 4) \o tied_words
        ELSE top_5

CommonWordsReport(c, raw) ==
    LET media_type == ToLower(raw)
        all_results == SortGroups(WordGroups(c, media_type))
    IN  IF media_type \notin {"news", "blog"}
        THEN Report("words", "invalid_input", << >>, << >>)
        ELSE IF all_results = << >>
        THEN Report("words", "no_results", << >>, << >>)
        ELSE Report("words", "ok", all_results, CommonWordsPicked(all_results))

\* ---- option 2: article count difference between news and blogs

\* $dateToString of the resolved 'published'; null stays null.
NullText == << >>

DateOnly(pub) ==
    IF IsNullDate(pub) THEN NullText ELSE DateToString(ResolvedInstant(pub))

\* The $match stage: dateOnly is the text the user typed, and the
\* lowercased media type is the given one.
MatchesDayAndType(d, date_str, mtl) ==
    /\ DateOnly(d.published) = date_str
    /\ ToLower(d.mediaType) = mtl

\* The count of the $group stage for one lowercased media type.
DayCount(c, date_str, mtl) ==
    CountOf(c, {d \in BagToSet(c) : MatchesDayAndType(d, date_str, mtl)})

ArticleCountReport(c, date_str) ==
    LET news_count == DayCount(c, date_str, "news")
        blog_count == DayCount(c, date_str, "blog")
    IN  IF ~StrptimeOk(date_str)
        THEN CountReport("invalid_input", date_str, 0, 0, "none")
        ELSE IF SomeDateFails(c)
        THEN CountReport("failed", date_str, 0, 0, "none")
        ELSE IF news_count = 0 /\ blog_count = 0
        THEN CountReport("no_articles", date_str, 0, 0, "none")
        ELSE CountReport("ok", date_str, news_count, blog_count,
                         IF news_count > blog_count THEN "news"
                         ELSE IF blog_count > news_count THEN "blog"
                         ELSE "same")

\* ---- option 3: top sources for 2015

\* The $match stage: $year of the resolved 'published' is 2015.
PublishedIn2015(d) ==
    /\ ~IsNullDate(d.published)
    /\ ResolvedInstant(d.published).day.y = 2015

\* The $group stage: one group per raw source value.
SourceGroups(c) ==
    LET docs == {d \in BagToSet(c) : PublishedIn2015(d)}
    IN  {[id |-> src,
          count |-> CountOf(c, {d \in docs : d.source = src})]
            : src \in {d.source : d \in docs}}

\* Mutant of TopSourcesPicked: the first five, without the ties.
TopSourcesPickedFirstFive(all_results) ==
    Positions(Min(5, Len(all_results)))

\* top_5, fifth_count, included_sources, tied_sources and result, as
\* positions of all_results.
TopSourcesPicked(all_results) ==
    LET top_5 == Positions(Min(5, Len(all_results)))
    IN  IF Len(top_5) >= 5
        THEN LET fifth_count == all_results[5].count
                 included_sources == {all_results[i].id : i \in 1..4}
                 Tied(i) == /\ all_results[i].count = fifth_count
                            /\ all_results[i].id \notin included_sources
                 tied_sources == SelectSeq(Positions(Len(all_results)), Tied)
             IN  SubSeq(top_5, 1, 4) \o tied_sources
        ELSE top_5

TopSourcesReport(c) ==
    LET all_results == SortGroups(SourceGroups(c))
    IN  IF SomeDateFails(c)
        THEN Report("sources", "failed", << >>, << >>)
        ELSE IF all_results = << >>
        THEN Report("sources", "no_results", << >>, << >>)
        ELSE Report("sources", "ok", all_results, TopSourcesPicked(all_results))

\* ---- option 4: five most recent articles by source

\* The $match stage: the document's lowercased source is the lowercased
\* input.
MatchesSource(d, source_literal) == ToLower(d.source) = source_literal

\* The two $project stages: title, publishedDate and the day text.
Article(d) ==
    [title |-> d.title,
     publishedDate |-> [isNull |-> IsNullDate(d.published),
                        inst |-> ResolvedInstant(d.published)],
     date |-> DateOnly(d.published)]

\* The articles of the matching documents, copies counted.
MatchingArticles(c, source_literal) ==
    LET docs == {d \in BagToSet(c) : MatchesSource(d, source_literal)}
    IN  [a \in {Article(d) : d \in docs} |->
            CountOf(c, {d \in docs : Article(d) = a})]

\* {'$sort': {'publishedDate': -1}}: a must come before b (null sorts
\* last).
MoreRecent(a, b) ==
    /\ ~a.publishedDate.isNull
    /\ \/ b.publishedDate.isNull
       \/ InstantBefore(b.publishedDate.inst, a.publishedDate.inst)

\* The orders in which the sort stage may return a bag of articles: it
\* names no second key, so articles of one instant come in any order.
RECURSIVE SortedOrders(_)
SortedOrders(B) ==
    IF B = EmptyBag THEN {<< >>}
    ELSE LET firsts == {a \in BagToSet(B) :
                           \A b \in BagToSet(B) : ~MoreRecent(b, a)}
         IN  UNION {{<< a >> \o rest : rest \in SortedOrders(B (-) SetToBag({a}))}
                       : a \in firsts}

\* Some matching document makes $toDate fail.
SomeMatchingDateFails(c, source_literal) ==
    \E d \in BagToSet(c) :
        MatchesSource(d, source_literal) /\ ToDateFails(d.published)

\* Mutant of RecentPicked: the tied articles are not checked against
\* included_keys.
RecentPickedNoExclusion(all_articles) ==
    LET top_5 == Positions(Min(5, Len(all_articles)))
    IN  IF Len(top_5) >= 5
        THEN LET fifth_published_date == all_articles[5].publishedDate
                 Tied(i) ==
                     all_articles[i].publishedDate = fifth_published_date
                 tied_articles == SelectSeq(Positions(Len(all_articles)), Tied)
             IN  IF ~fifth_published_date.isNull
                 THEN SubSeq(top_5, 1, 4) \o tied_articles
                 ELSE top_5
        ELSE top_5

\* top_5, fifth_published_date, included_keys, tied_articles and result, as
\* positions of all_articles.
RecentPicked(all_articles) ==
    LET top_5 == Positions(Min(5, Len(all_articles)))
    IN  IF Len(top_5) >= 5
        THEN LET fifth_published_date == all_articles[5].publishedDate
                 included_keys ==
                     {<< all_articles[i].title, all_articles[i].publishedDate >>
                         : i \in 1..4}
                 Tied(i) ==
                     /\ all_articles[i].publishedDate = fifth_published_date
                     /\ << all_articles[i].title, all_articles[i].publishedDate >>
                            \notin included_keys
                 tied_articles == SelectSeq(Positions(Len(all_articles)), Tied)
             IN  IF ~fifth_published_date.isNull
                 THEN SubSeq(top_5, 1, 4) \o tied_articles
                 ELSE top_5
        ELSE top_5

\* The report for one order the store returned the matching articles in.
RecentReport(c, raw, all_articles) ==
    IF raw = ""
    THEN Report("recent", "invalid_input", << >>, << >>)
    ELSE IF SomeMatchingDateFails(c, ToLower(raw))
    THEN Report("recent", "failed", << >>, << >>)
    ELSE IF all_articles = << >>
    THEN Report("recent", "not_found", << >>, << >>)
    ELSE Report("recent", "ok", all_articles, RecentPicked(all_articles))

\* ---- main

MediaInputs == {"news", "News", "blog", "video"}

SourceInputs == {"BBC", "bbc", "npr", "zzz", ""}

\* What the user may type as a date: the zero-padded text of a day, the
\* same day without the leading zeros, and texts strptime rejects.
DateInputs ==
    {DateText(Pad4(d.y), Pad2(d.m), Pad2(d.d)) : d \in {D1, D2, D3}}
    \cup {DateText(Pad4(d.y), Unpadded(d.m), Unpadded(d.d)) : d \in {D1, D2}}
    \cup {DateText(Pad4(2015), Pad2(13), Pad2(1)),
          DateText(Pad4(2015), Pad2(2), Pad2(30)),
          DateText(Pad2(15), Pad2(9), Pad2(1))}

\* MongoClient(...), the ping and the check that 'articles' exists.
QueryStart ==
    /\ qpc = "idle"
    /\ \/ \* the ping is refused: exit(1), the client is not closed
          /\ StoreMayFail
          /\ failures' = failures + 1
          /\ qClientOpen' = TRUE
          /\ qpc' = "exited"
          /\ output' = [NoOutput EXCEPT !.status = "connect_error"]
       \/ \* list_collection_names() is refused: an uncaught exception
          /\ StoreMayFail
          /\ failures' = failures + 1
          /\ qClientOpen' = TRUE
          /\ qpc' = "exited"
          /\ output' = [NoOutput EXCEPT !.status = "crash"]
       \/ \* no 'articles' collection: client.close() and exit(1)
          /\ ~CollectionExists
          /\ qClientOpen' = FALSE
          /\ qpc' = "exited"
          /\ output' = [NoOutput EXCEPT !.status = "not_loaded"]
          /\ UNCHANGED failures
       \/ /\ CollectionExists
          /\ qClientOpen' = TRUE
          /\ qpc' = "menu"
          /\ UNCHANGED << failures, output >>
    /\ UNCHANGED << collection, loadVars >>

\* An operation's store request is refused, or its pipeline fails: the
\* exception leaves the handler, the loop and main.
Crash(op) ==
    /\ qpc' = "exited"
    /\ output' = [NoOutput EXCEPT !.op = op, !.status = "failed"]
    /\ UNCHANGED qClientOpen

HandleCommonWords ==
    /\ qpc = "menu"
    /\ \E raw \in MediaInputs :
          \/ /\ output' = CommonWordsReport(collection, raw)
             /\ qpc' = "shown"
             /\ UNCHANGED << qClientOpen, failures >>
          \/ /\ CommonWordsReport(collection, raw).status # "invalid_input"
             /\ StoreMayFail
             /\ failures' = failures + 1
             /\ Crash("words")
    /\ UNCHANGED << collection, loadVars >>

HandleArticleCount ==
    /\ qpc = "menu"
    /\ \E date_str \in DateInputs :
          LET report == ArticleCountReport(collection, date_str)
          IN  \/ /\ report.status # "failed"
                 /\ output' = report
                 /\ qpc' = "shown"
                 /\ UNCHANGED << qClientOpen, failures >>
              \/ /\ report.status = "failed"
                 /\ Crash("count")
                 /\ UNCHANGED failures
              \/ /\ report.status # "invalid_input"
                 /\ StoreMayFail
                 /\ failures' = failures + 1
                 /\ Crash("count")
    /\ UNCHANGED << collection, loadVars >>

HandleTopSources2015 ==
    /\ qpc = "menu"
    /\ LET report == TopSourcesReport(collection)
       IN  \/ /\ report.status # "failed"
              /\ output' = report
              /\ qpc' = "shown"
              /\ UNCHANGED << qClientOpen, failures >>
           \/ /\ report.status = "failed"
              /\ Crash("sources")
              /\ UNCHANGED failures
           \/ /\ StoreMayFail
              /\ failures' = failures + 1
              /\ Crash("sources")
    /\ UNCHANGED << collection, loadVars >>

HandleRecentBySource ==
    /\ qpc = "menu"
    /\ \E raw \in SourceInputs :
          \E all_articles \in SortedOrders(MatchingArticles(collection, ToLower(raw))) :
             LET report == RecentReport(collection, raw, all_articles)
             IN  \/ /\ report.status # "failed"
                    /\ output' = report
                    /\ qpc' = "shown"
                    /\ UNCHANGED << qClientOpen, failures >>
                 \/ /\ report.status = "failed"
                    /\ Crash("recent")
                    /\ UNCHANGED failures
                 \/ /\ report.status # "invalid_input"
                    /\ StoreMayFail
                    /\ failures' = failures + 1
                    /\ Crash("recent")
    /\ UNCHANGED << collection, loadVars >>

\* Any other choice: a message, and the menu is shown again.
InvalidChoice ==
    /\ qpc = "menu"
    /\ qpc' = "shown"
    /\ output' = [NoOutput EXCEPT !.op = "menu", !.status = "invalid_choice"]
    /\ UNCHANGED << collection, failures, loadVars, qClientOpen >>

\* The handler has returned: the loop prints the menu and waits for the
\* next choice.
PrintMenu ==
    /\ qpc = "shown"
    /\ qpc' = "menu"
    /\ output' = NoOutput
    /\ UNCHANGED << collection, failures, loadVars, qClientOpen >>

\* Choice 5: leave the loop, client.close().
QueryExit ==
    /\ qpc = "menu"
    /\ qpc' = "exited"
    /\ qClientOpen' = FALSE
    /\ output' = [NoOutput EXCEPT !.op = "menu", !.status = "bye"]
    /\ UNCHANGED << collection, failures, loadVars >>

QueryNext ==
    \/ QueryStart
    \/ HandleCommonWords
    \/ HandleArticleCount
    \/ HandleTopSources2015
    \/ HandleRecentBySource
    \/ InvalidChoice
    \/ PrintMenu
    \/ QueryExit

(* ------------------- collections the queries run on ------------------- *)

\* Copies of one document a collection may hold.
MaxCopies == 2

\* Seven sources with one 2015 article kind each, each content holding its
\* own word; 'published' is native in some and a string in others.
RankingDocs ==
    {Doc("news", << Word("ant") >>, "a", "BBC", NativeDate(Instant(D1, 0))),
     Doc("News", << Word("bee"), Sep(" ") >>, "b", "CNN",
         DateString(Instant(D1, 1))),
     Doc("news", << Word("Cats"), Sep(". "), Word("cats"), Sep(", "),
                    Word("CATS"), Sep("!") >>, "c", "Fox",
         NativeDate(Instant(D2, 0))),
     Doc("NEWS", << Sep("("), Word("dog"), Sep(")") >>, "d", "NPR",
         DateString(Instant(D2, 0))),
     Doc("news", << Word("e-mail") >>, "e", "bbc", NativeDate(Instant(D2, 1))),
     Doc("news", << Word("fox") >>, "f", "cnn", DateString(Instant(D1, 0))),
     Doc("news", << Word("gnu_1") >>, "g", "npr", NativeDate(Instant(D1, 0)))}

\* Articles of one source (and one of another), several of one instant and
\* of one title, of both media types, with 'published' native, a string, a
\* string that is no date, and null.
SourceDocs ==
    {Doc("News", NoText, "t1", "BBC", NativeDate(Instant(D1, 0))),
     Doc("blog", NoText, "t1", "bbc", DateString(Instant(D1, 0))),
     Doc("news", NoText, "t2", "BBC", DateString(Instant(D1, 0))),
     Doc("Blog", NoText, "t2", "BBC", NativeDate(Instant(D1, 1))),
     Doc("video", << Word("dog") >>, "t2", "bbc", NullValue),
     Doc("blog", << Word("dog") >>, "t2", "CNN", BadDateString)}

\* The bags over a set of documents with at most MaxCopies copies of each.
BagsOver(S) ==
    {[d \in {x \in S : f[x] > 0} |-> f[d]] : f \in [S -> 0..MaxCopies]}

QueryInit ==
    /\ collection \in BagsOver(RankingDocs) \cup BagsOver(SourceDocs)
    /\ source = << >>
    /\ lpc = "exited"
    /\ fileOpen = FALSE
    /\ clientOpen = FALSE
    /\ linePos = 0
    /\ batch = << >>
    /\ total_documents = 0
    /\ batch_count = 0
    /\ outcome = "completed"
    /\ insertCalls = 0
    /\ insertedSizes = << >>
    /\ flushFailed = FALSE
    /\ failures = 0
    /\ run = 1
    /\ afterFirst = EmptyBag
    /\ qpc = "idle"
    /\ qClientOpen = FALSE
    /\ output = NoOutput

QuerySpec == QueryInit /\ [][QueryNext]_vars

(* ------------------------ queries: the claims ------------------------- *)

Listed(op) == output.op = op /\ output.status = "ok"

\* The last position of a sorted grouped result whose count is at least the
\* fifth entry's.
LastTied(all) ==
    Cardinality({i \in DOMAIN all : all[i].count >= all[5].count})

\* C7: in options 1 and 3, when the sorted grouped result has more than 5
\* entries, every entry with the fifth entry's count is listed, and the
\* list is the sorted result up to the last such entry: positions 1-4, then
\* the tied entries in sorted order.
C7_TieCompleteness ==
    ((Listed("words") \/ Listed("sources")) /\ Len(output.all) > 5) =>
        /\ \A i \in DOMAIN output.all :
              output.all[i].count = output.all[5].count =>
                  \E j \in DOMAIN output.list : output.list[j] = output.all[i]
        /\ output.list = SubSeq(output.all, 1, LastTied(output.all))

\* C7: option 3 has listed a result of seven sources in which the fourth,
\* fifth and sixth have one count and the seventh a smaller one.
C7_Witness ==
    /\ Listed("sources")
    /\ Len(output.all) = 7
    /\ output.all[4].count = output.all[5].count
    /\ output.all[6].count = output.all[5].count
    /\ output.all[7].count < output.all[5].count
    /\ Len(output.list) = 6

\* C8: in options 1, 3 and 4 no position of the sorted result is listed
\* twice, and in options 1 and 3 no two listed entries are the same.
C8_NoTieLeakage ==
    (Listed("words") \/ Listed("sources") \/ Listed("recent")) =>
        /\ \A i, j \in DOMAIN output.picked :
              i # j => output.picked[i] # output.picked[j]
        /\ (output.op # "recent") =>
              \A i, j \in DOMAIN output.list :
                  i # j => output.list[i] # output.list[j]

\* C8: option 4 has listed more than five articles of which the third,
\* fourth and fifth were published at one instant.
C8_Witness ==
    /\ Listed("recent")
    /\ Len(output.all) > 5
    /\ output.all[3].publishedDate = output.all[5].publishedDate
    /\ output.all[4].publishedDate = output.all[5].publishedDate
    /\ Len(output.list) > 5

\* The documents of the collection published on a calendar day (whatever
\* the representation of 'published') with the given lowercased media type.
PublishedOn(c, day, mtl) ==
    CountOf(c, {d \in BagToSet(c) :
                   /\ ~IsNullDate(d.published)
                   /\ ResolvedInstant(d.published).day = day
                   /\ ToLower(d.mediaType) = mtl})

\* C9: for the calendar day the user gave, option 2 reports 'no articles'
\* exactly when no news or blog document was published on that day, and
\* otherwise the two actual counts, never both zero, with the leader news,
\* blog or 'same' as the counts compare.
C9_ArticleCountOutcome ==
    (output.op = "count" /\ output.status \in {"ok", "no_articles"}) =>
        LET day == Strptime(output.typed)
            n == PublishedOn(collection, day, "news")
            b == PublishedOn(collection, day, "blog")
        IN  /\ (output.status = "no_articles") <=> (n + b = 0)
            /\ (output.status = "ok") =>
                  /\ output.news = n
                  /\ output.blog = b
                  /\ output.news + output.blog > 0
                  /\ (output.leader = "news") <=> (n > b)
                  /\ (output.leader = "blog") <=> (b > n)
                  /\ (output.leader = "same") <=> (n = b)

\* The outcome of C9 for the dates typed with every field zero-padded.
ArticleCountOutcomeWhenPadded ==
    (/\ output.op = "count"
     /\ output.status \in {"ok", "no_articles"}
     /\ Len(output.typed[2]) = 2
     /\ Len(output.typed[3]) = 2) =>
        LET day == Strptime(output.typed)
            n == PublishedOn(collection, day, "news")
            b == PublishedOn(collection, day, "blog")
        IN  /\ (output.status = "no_articles") <=> (n + b = 0)
            /\ (output.status = "ok") =>
                  /\ output.news = n
                  /\ output.blog = b
                  /\ (output.leader = "news") <=> (n > b)
                  /\ (output.leader = "blog") <=> (b > n)
                  /\ (output.leader = "same") <=> (n = b)

\* C10: after a completed run every persisted 'published' resolves to an
\* instant, and options 2, 3 and 4 do not fail on the collection.
C10_PublishedResolvable ==
    RunCompleted =>
        /\ \A d \in BagToSet(collection) : ~ToDateFails(d.published)
        /\ \A date_str \in DateInputs :
              ArticleCountReport(collection, date_str).status # "failed"
        /\ TopSourcesReport(collection).status # "failed"
        /\ \A raw \in SourceInputs :
              ~SomeMatchingDateFails(collection, ToLower(raw))

\* The query program's half of C4: when it has exited, its client is closed.
QueryClientReleased == qpc = "exited" => ~qClientOpen

\* C11: in options 1, 3 and 4, when the sorted result has at most 5 entries,
\* the list is the whole sorted result, in order.
C11_AtMostFiveAllListed ==
    ((Listed("words") \/ Listed("sources") \/ Listed("recent"))
        /\ Len(output.all) <= 5) =>
            output.list = output.all

\* The outcome of C11 in options 1 and 3, whose entries have distinct keys.
AtMostFiveAllListedGrouped ==
    ((Listed("words") \/ Listed("sources")) /\ Len(output.all) <= 5) =>
        output.list = output.all

====
